---- MODULE Spec2Model ----
(***************************************************************************)
(* Retrieval fusion engine of the recipe search backend:                   *)
(*   backend/src/query_engine/fusion.py    RecipeSearchEngine              *)
(*   backend/src/query_engine/kg_query.py  KnowledgeGraphQuery             *)
(*   backend/src/query_engine/pg_query.py  PostgresQuery                   *)
(*   backend/src/api/routes.py             /search and /search/stream      *)
(*   backend/src/services/recipe_preview.py  preview image cache           *)
(* Scores are Python floats in the code; here they are exact fractions     *)
(* <<numerator, denominator>> in lowest terms.                             *)
(***************************************************************************)
EXTENDS Integers, Sequences, FiniteSets, TLC

\* ---------------------------------------------------------------- bounds
MaxLimit == 2
MaxRows == 2
MaxCalls == 2
MaxFuseRows == 3
MaxChunks == 2
MaxInflight == 2
MaxTicks == 3

\* ------------------------------------------------------------- fractions
RECURSIVE GCD(_, _)
GCD(a, b) == IF b = 0 THEN a ELSE GCD(b, a % b)

Frac(n, d) == LET g == GCD(n, d) IN <<n \div g, d \div g>>

FAdd(x, y) == Frac(x[1] * y[2] + y[1] * x[2], x[2] * y[2])

FMul(x, y) == Frac(x[1] * y[1], x[2] * y[2])

FDiv(x, y) == Frac(x[1] * y[2], x[2] * y[1])

FLess(x, y) == x[1] * y[2] < y[1] * x[2]

One == <<1, 1>>

\* ------------------------------------------------- optional values (None)
None == [some |-> FALSE]

Some(v) == [some |-> TRUE, val |-> v]

\* Python truthiness of `str | None`, `list | None` and `float`
TruthyStr(s) == s.some /\ s.val # ""

TruthyList(l) == l.some /\ Len(l.val) > 0

TruthyNum(x) == x[1] # 0

\* ------------------------------------------------- weights of the merge
VectorWeight == <<3, 5>>

\* the rating term subtracted instead of added
RatingWeight_negative == <<0 - 2, 5>>

RatingWeight == <<2, 5>>

NeutralScore == <<1, 2>>

RatingScale == <<5, 1>>

BoostFactor == <<6, 5>>

\* ------------------------------------------------------- store contents
\* recipes table (PRIMARY KEY id) and Recipe nodes (unique id); node 3 has
\* no row in the recipes table
StoreIds == {1, 2}

GraphIds == {1, 2, 3}

StoreRating == (1 :> <<4, 1>>) @@ (2 :> <<0, 1>>)

\* embedding <=> query vector, per row
StoreDistance == (1 :> <<1, 5>>) @@ (2 :> <<0, 1>>)

GraphRating == (1 :> <<4, 1>>) @@ (2 :> <<0, 1>>) @@ (3 :> <<9, 2>>)

Range(s) == {s[i] : i \in DOMAIN s}

DistinctSeqs(S, n) ==
    {s \in UNION {[1..k -> S] : k \in 0..n} :
        \A i, j \in DOMAIN s : i # j => s[i] # s[j]}

Limits == (0 - 1) .. MaxLimit

\* the intents of the search requests: the fields search() routes on vary,
\* the filters that only reach the query builders stay unset
Intents ==
    [use_kg : BOOLEAN, use_sql : BOOLEAN, use_vector : BOOLEAN,
     semantic_query : {None, Some(""), Some("spicy curry")},
     cuisine : {None, Some("Indian")},
     ingredients_include : {None, Some(<<>>), Some(<<"egg">>)},
     diet : {None}, course : {None},
     max_prep_time_mins : {None}, max_cook_time_mins : {None}]

\* the intents handed to the query builders and the explanation generator
FullIntents ==
    [use_kg : BOOLEAN, use_sql : BOOLEAN, use_vector : BOOLEAN,
     semantic_query : {None, Some(""), Some("spicy curry")},
     cuisine : {None, Some("Indian")},
     ingredients_include :
        {None, Some(<<>>), Some(<<"egg">>), Some(<<"egg", "rice">>)},
     diet : {None, Some("Vegan")}, course : {None, Some("Dinner")},
     max_prep_time_mins : {None, Some(0), Some(30)},
     max_cook_time_mins : {None, Some(45)}]

SourceTags == {"kg", "sql", "vector", "sql+vector"}

\* the source tags of the three store methods
StoreTags == {"sql", "vector", "sql+vector"}

VARIABLES
    query_intent,     \* what parse_user_query answers for the request's query
    limit,            \* the request's limit
    kg_rows,          \* ids the graph traversal matches, as the graph meets them
    pg_rows,          \* ids the store query matches, as the store meets them
    pc,               \* position of the engine in search()
    intent,           \* search(): intent
    kg_results,       \* search(): kg_results
    pg_results,       \* search(): pg_results
    kg_calls,         \* kg_query.search calls issued by the current search
    pg_calls,         \* pg_query.search_* calls issued by the current search
    pg_method,        \* which pg_query.search_* the current search called
    error,            \* which call raised out of the current search
    results_by_id,    \* _fuse_results(): the merge map when the merge ended
    fused,            \* search(): fused
    source_breakdown, \* search(): source_breakdown
    returned,         \* number of SearchResponses returned so far
    prev,             \* the SearchResponse returned before the latest one
    status_code,      \* HTTP status the /search request was answered with
    call,             \* a retriever or generator call made on its own
    spc,              \* position of _generate_search_stream
    events,           \* the events _generate_search_stream has yielded
    merge_calls,      \* store calls _fuse_results issued in the current search
    inflight,         \* the locals of each search in flight on the engine
    cache,            \* recipe_preview._cache
    now               \* time.time()

vars == <<query_intent, limit, kg_rows, pg_rows, pc, intent, kg_results,
          pg_results, kg_calls, pg_calls, pg_method, error, results_by_id,
          fused, source_breakdown, returned, prev, status_code, call, spc,
          events, merge_calls, inflight, cache, now>>


\* ------------------------------------------------------------ retrievers
DefaultIntent ==
    [use_kg |-> FALSE, use_sql |-> FALSE, use_vector |-> FALSE,
     semantic_query |-> None, cuisine |-> None, ingredients_include |-> None,
     diet |-> None, course |-> None,
     max_prep_time_mins |-> None, max_cook_time_mins |-> None]

\* the LIMIT clause of a query; a store that accepts a negative LIMIT
\* applies no cap
LimitRows(rows, n) ==
    IF n < 0 THEN rows
    ELSE SubSeq(rows, 1, IF n < Len(rows) THEN n ELSE Len(rows))

\* ORDER BY as the store runs it: ascending on key, rows of equal key in
\* the order the store met them
RECURSIVE InsertAsc(_, _, _)
InsertAsc(sorted, id, key) ==
    IF sorted = <<>> THEN <<id>>
    ELSE IF FLess(key[id], key[Head(sorted)])
         THEN <<id>> \o sorted
         ELSE <<Head(sorted)>> \o InsertAsc(Tail(sorted), id, key)

RECURSIVE OrderBy(_, _)
OrderBy(rows, key) ==
    IF rows = <<>> THEN <<>>
    ELSE InsertAsc(OrderBy(SubSeq(rows, 1, Len(rows) - 1), key),
                   rows[Len(rows)], key)

\* ORDER BY ... DESC
Desc(key) == [id \in DOMAIN key |-> <<0 - key[id][1], key[id][2]>>]

row_to_result(id, source, has_distance) ==
    [id |-> id, rating |-> StoreRating[id],
     distance |-> IF has_distance THEN Some(StoreDistance[id]) ELSE None,
     source |-> source]

search_sql(i, lim) ==
    LET rows == LimitRows(OrderBy(pg_rows, Desc(StoreRating)), lim)
    IN  [k \in DOMAIN rows |-> row_to_result(rows[k], "sql", FALSE)]

search_vector(query_text, lim) ==
    LET rows == LimitRows(OrderBy(pg_rows, StoreDistance), lim)
    IN  [k \in DOMAIN rows |-> row_to_result(rows[k], "vector", TRUE)]

\* the cuisine fallback left out
SemanticText_noFallback(i) ==
    IF TruthyStr(i.semantic_query) THEN i.semantic_query.val ELSE ""

\* semantic_text = intent.semantic_query or intent.cuisine or ""
SemanticText(i) ==
    IF TruthyStr(i.semantic_query) THEN i.semantic_query.val
    ELSE IF TruthyStr(i.cuisine) THEN i.cuisine.val ELSE ""

search_hybrid(i, lim) ==
    LET semantic_text == SemanticText(i)
        rows == LimitRows(
                    IF semantic_text # ""
                    THEN OrderBy(pg_rows, StoreDistance)
                    ELSE OrderBy(pg_rows, Desc(StoreRating)), lim)
    IN  [k \in DOMAIN rows |->
            row_to_result(rows[k], "sql+vector", semantic_text # "")]

get_recipe_by_id(recipe_id) ==
    IF recipe_id \in StoreIds
    THEN Some(row_to_result(recipe_id, "sql", FALSE))
    ELSE None

kg_search(i, lim) ==
    LET rows == LimitRows(OrderBy(kg_rows, Desc(GraphRating)), lim)
    IN  [k \in DOMAIN rows |-> [id |-> rows[k], rating |-> GraphRating[rows[k]]]]

\* ------------------------------------------------------------ the merge
HasKey(map, k) == \E n \in DOMAIN map : map[n].key = k

\* a list in place of the dict: every assignment adds an entry
Put_append(map, k, v) == Append(map, [key |-> k, value |-> v])

\* results_by_id[k] = v: a new key goes last, a known key keeps its place
Put(map, k, v) ==
    IF HasKey(map, k)
    THEN [n \in DOMAIN map |->
            IF map[n].key = k THEN [key |-> k, value |-> v] ELSE map[n]]
    ELSE Append(map, [key |-> k, value |-> v])

\* the rating of an unrated recipe folded in as 0 instead of 0.5
StoreScore_unratedZero(pg_result) ==
    LET vector_score ==
            IF pg_result.distance.some
            THEN FDiv(One, FAdd(One, pg_result.distance.val))
            ELSE NeutralScore
        rating_score == FDiv(pg_result.rating, RatingScale)
    IN  FAdd(FMul(VectorWeight, vector_score), FMul(RatingWeight, rating_score))

StoreScore(pg_result) ==
    LET vector_score ==
            IF pg_result.distance.some
            THEN FDiv(One, FAdd(One, pg_result.distance.val))
            ELSE NeutralScore
        rating_score ==
            IF TruthyNum(pg_result.rating)
            THEN FDiv(pg_result.rating, RatingScale)
            ELSE NeutralScore
    IN  FAdd(FMul(VectorWeight, vector_score), FMul(RatingWeight, rating_score))

\* a store row of a known id added to the entry's sources instead of
\* replacing the entry
PgStep_keepSources(map, pg_result) ==
    IF HasKey(map, pg_result.id)
    THEN [n \in DOMAIN map |->
            IF map[n].key = pg_result.id
            THEN [key |-> map[n].key,
                  value |-> [map[n].value EXCEPT
                                !.sources = Append(@, pg_result.source)]]
            ELSE map[n]]
    ELSE Put(map, pg_result.id,
             [id |-> pg_result.id, final_score |-> StoreScore(pg_result),
              sources |-> <<pg_result.source>>])

PgStep(map, pg_result) ==
    Put(map, pg_result.id,
        [id |-> pg_result.id, final_score |-> StoreScore(pg_result),
         sources |-> <<pg_result.source>>])

\* the boost added (+0.2) instead of multiplied
Boost_additive(existing) ==
    [existing EXCEPT
        !.final_score = FAdd(@, <<1, 5>>),
        !.sources = IF "kg" \in Range(@) THEN @ ELSE Append(@, "kg")]

Boost(existing) ==
    [existing EXCEPT
        !.final_score = FMul(@, BoostFactor),
        !.sources = IF "kg" \in Range(@) THEN @ ELSE Append(@, "kg")]

\* a graph-only hit without a rating scored 0 instead of 0.5
GraphOnlyEntry_unratedZero(kg_result, full_recipe) ==
    [id |-> full_recipe.id,
     final_score |-> FDiv(kg_result.rating, RatingScale),
     sources |-> <<"kg">>]

GraphOnlyEntry(kg_result, full_recipe) ==
    [id |-> full_recipe.id,
     final_score |-> IF TruthyNum(kg_result.rating)
                     THEN FDiv(kg_result.rating, RatingScale)
                     ELSE NeutralScore,
     sources |-> <<"kg">>]

\* a hit without a recipes row kept, built from the graph's own fields
KgStep_keepDangling(map, kg_result) ==
    IF HasKey(map, kg_result.id)
    THEN [n \in DOMAIN map |->
            IF map[n].key = kg_result.id
            THEN [key |-> map[n].key, value |-> Boost(map[n].value)]
            ELSE map[n]]
    ELSE Put(map, kg_result.id, GraphOnlyEntry(kg_result, kg_result))

KgStep(map, kg_result) ==
    IF HasKey(map, kg_result.id)
    THEN [n \in DOMAIN map |->
            IF map[n].key = kg_result.id
            THEN [key |-> map[n].key, value |-> Boost(map[n].value)]
            ELSE map[n]]
    ELSE LET full_recipe == get_recipe_by_id(kg_result.id)
         IN  IF full_recipe.some
             THEN Put(map, kg_result.id,
                      GraphOnlyEntry(kg_result, full_recipe.val))
             ELSE map

RECURSIVE PgLoop(_, _)
PgLoop(map, pg) ==
    IF pg = <<>> THEN map ELSE PgLoop(PgStep(map, Head(pg)), Tail(pg))

RECURSIVE KgLoop(_, _)
KgLoop(map, kg) ==
    IF kg = <<>> THEN map ELSE KgLoop(KgStep(map, Head(kg)), Tail(kg))

\* the merge map kept on the engine and never cleared
StaleMergeMap == results_by_id

\* results_by_id = {} at the head of _fuse_results
EmptyMergeMap == <<>>

MergeMap(kg, pg) == KgLoop(PgLoop(EmptyMergeMap, pg), kg)

Values(map) == [n \in DOMAIN map |-> map[n].value]

\* sorted(..., key=final_score, reverse=True): stable, highest first
RECURSIVE InsertDesc(_, _)
InsertDesc(sorted, e) ==
    IF sorted = <<>> THEN <<e>>
    ELSE IF FLess(Head(sorted).final_score, e.final_score)
         THEN <<e>> \o sorted
         ELSE <<Head(sorted)>> \o InsertDesc(Tail(sorted), e)

RECURSIVE SortDesc(_)
SortDesc(s) ==
    IF s = <<>> THEN <<>>
    ELSE InsertDesc(SortDesc(SubSeq(s, 1, Len(s) - 1)), s[Len(s)])

\* s[:n] of Python
Slice(s, n) ==
    LET stop == IF n >= 0 THEN (IF n < Len(s) THEN n ELSE Len(s))
                ELSE (IF Len(s) + n > 0 THEN Len(s) + n ELSE 0)
    IN  SubSeq(s, 1, stop)

\* the cut taken on the merge map before it is sorted
fuse_results_cutFirst(kg, pg, lim) ==
    SortDesc(Slice(Values(MergeMap(kg, pg)), lim))

fuse_results(kg, pg, lim) == Slice(SortDesc(Values(MergeMap(kg, pg))), lim)

\* the get_recipe_by_id calls of the graph loop: one per hit whose id is
\* not in the merge map when its turn comes
RECURSIVE HydrationCalls(_, _)
HydrationCalls(map, kg) ==
    IF kg = <<>> THEN 0
    ELSE (IF HasKey(map, Head(kg).id) THEN 0 ELSE 1)
            + HydrationCalls(KgStep(map, Head(kg)), Tail(kg))

\* a graph hit missing from the store results makes _fuse_results call
\* get_recipe_by_id
NeedsHydration(kg, pg) ==
    \E n \in DOMAIN kg : \A m \in DOMAIN pg : pg[m].id # kg[n].id

\* ------------------------------------------------------ source breakdown
ZeroBreakdown ==
    ("kg" :> 0) @@ ("sql" :> 0) @@ ("vector" :> 0) @@ ("sql+vector" :> 0)

RECURSIVE CountSources(_, _)
CountSources(bd, sources) ==
    IF sources = <<>> THEN bd
    ELSE CountSources(
            IF Head(sources) \in DOMAIN bd
            THEN [bd EXCEPT ![Head(sources)] = @ + 1] ELSE bd,
            Tail(sources))

RECURSIVE CountResults(_, _)
CountResults(bd, results) ==
    IF results = <<>> THEN bd
    ELSE CountResults(CountSources(bd, Head(results).sources), Tail(results))

\* the tags counted over the whole merge map, before the cut
Breakdown_untruncated(results) ==
    CountResults(ZeroBreakdown, Values(results_by_id))

Breakdown(results) == CountResults(ZeroBreakdown, results)

\* ---------------------------------------------------------------- routing
\* the graph routed on the flag alone
GraphRouted_flagOnly(i) == i.use_kg

GraphRouted(i) == i.use_kg \/ TruthyList(i.ingredients_include)

StoreMethod(i) ==
    IF i.use_sql /\ i.use_vector THEN "search_hybrid"
    ELSE IF i.use_vector /\ TruthyStr(i.semantic_query) THEN "search_vector"
    ELSE IF i.use_sql THEN "search_sql"
    ELSE "search_hybrid"

StoreCall(i, lim) ==
    IF i.use_sql /\ i.use_vector THEN search_hybrid(i, lim)
    ELSE IF i.use_vector /\ TruthyStr(i.semantic_query)
         THEN search_vector(i.semantic_query.val, lim)
    ELSE IF i.use_sql THEN search_sql(i, lim)
    ELSE search_hybrid(i, lim)

NoResponse == [results |-> <<>>, source_breakdown |-> ZeroBreakdown]

NoCall == [op |-> "none"]

\* the urls get_recipe_preview_image is asked about
Urls == {"https://a.example/r1", "http://b.example/r2", "ftp://c.example/r3"}

\* _cache = {}
EmptyCache == [u \in Urls |-> None]

\* ------------------------------------------------------------------ Init
Init ==
    /\ query_intent \in Intents
    /\ limit \in Limits
    /\ kg_rows \in DistinctSeqs(GraphIds, MaxRows)
    /\ pg_rows \in DistinctSeqs(StoreIds, MaxRows)
    /\ pc = "idle"
    /\ intent = DefaultIntent
    /\ kg_results = <<>>
    /\ pg_results = <<>>
    /\ kg_calls = 0
    /\ pg_calls = 0
    /\ pg_method = "none"
    /\ error = "none"
    /\ results_by_id = <<>>
    /\ fused = <<>>
    /\ source_breakdown = ZeroBreakdown
    /\ returned = 0
    /\ prev = NoResponse
    /\ status_code = 0
    /\ call = NoCall
    /\ spc = "off"
    /\ events = <<>>
    /\ merge_calls = 0
    /\ inflight = <<>>
    /\ cache = EmptyCache
    /\ now = 0

\* --------------------------------------------------------------- actions
\* search(): intent = parse_user_query(query); kg_results = []; pg_results = []
StartSearch ==
    /\ pc \in {"idle", "done", "raised"}
    /\ returned < MaxCalls
    /\ intent' = query_intent
    /\ kg_results' = <<>>
    /\ pg_results' = <<>>
    /\ kg_calls' = 0
    /\ pg_calls' = 0
    /\ pg_method' = "none"
    /\ error' = "none"
    /\ prev' = IF pc = "done"
               THEN [results |-> fused, source_breakdown |-> source_breakdown]
               ELSE prev
    /\ pc' = "kg"
    /\ UNCHANGED <<query_intent, limit, kg_rows, pg_rows, results_by_id,
                   fused, source_breakdown, returned>>
    /\ status_code' = 0
    /\ UNCHANGED <<call, spc, events>>
    /\ merge_calls' = 0
    /\ UNCHANGED <<inflight, cache, now>>

\* if intent.use_kg or intent.ingredients_include: kg_results = kg_query.search(...)
GraphRetrieve ==
    /\ pc = "kg"
    /\ IF GraphRouted(intent)
       THEN /\ kg_results' = kg_search(intent, limit * 2)
            /\ kg_calls' = kg_calls + 1
       ELSE UNCHANGED <<kg_results, kg_calls>>
    /\ pc' = "pg"
    /\ UNCHANGED <<query_intent, limit, kg_rows, pg_rows, intent, pg_results,
                   pg_calls, pg_method, error, results_by_id, fused,
                   source_breakdown, returned, prev>>
    /\ UNCHANGED <<status_code, call, spc, events>>
    /\ UNCHANGED <<merge_calls, inflight, cache, now>>

\* session.run raises (graph store unreachable, query rejected); search()
\* has no handler, the exception leaves search()
GraphRetrieveRaises ==
    /\ pc = "kg"
    /\ GraphRouted(intent)
    /\ kg_calls' = kg_calls + 1
    /\ error' = "kg"
    /\ pc' = "raised"
    /\ UNCHANGED <<query_intent, limit, kg_rows, pg_rows, intent, kg_results,
                   pg_results, pg_calls, pg_method, results_by_id, fused,
                   source_breakdown, returned, prev>>
    /\ status_code' = 500
    /\ UNCHANGED <<call, spc, events>>
    /\ UNCHANGED <<merge_calls, inflight, cache, now>>

\* the if/elif/elif/else over search_hybrid, search_vector, search_sql
StoreRetrieve ==
    /\ pc = "pg"
    /\ pg_results' = StoreCall(intent, limit * 2)
    /\ pg_method' = StoreMethod(intent)
    /\ pg_calls' = pg_calls + 1
    /\ pc' = "fuse"
    /\ UNCHANGED <<query_intent, limit, kg_rows, pg_rows, intent, kg_results,
                   kg_calls, error, results_by_id, fused, source_breakdown,
                   returned, prev>>
    /\ UNCHANGED <<status_code, call, spc, events>>
    /\ UNCHANGED <<merge_calls, inflight, cache, now>>

\* the failure of the store call swallowed: search() goes on with no store
\* results
StoreRetrieveRaises_degrades ==
    /\ pc = "pg"
    /\ pg_method' = StoreMethod(intent)
    /\ pg_calls' = pg_calls + 1
    /\ error' = "pg"
    /\ pg_results' = <<>>
    /\ pc' = "fuse"
    /\ UNCHANGED <<query_intent, limit, kg_rows, pg_rows, intent, kg_results,
                   kg_calls, results_by_id, fused, source_breakdown,
                   returned, prev, status_code, call, spc, events>>
    /\ UNCHANGED <<merge_calls, inflight, cache, now>>

\* cur.execute or the embedding request raises; no handler in search()
StoreRetrieveRaises ==
    /\ pc = "pg"
    /\ pg_method' = StoreMethod(intent)
    /\ pg_calls' = pg_calls + 1
    /\ error' = "pg"
    /\ pc' = "raised"
    /\ UNCHANGED <<query_intent, limit, kg_rows, pg_rows, intent, kg_results,
                   pg_results, kg_calls, results_by_id, fused,
                   source_breakdown, returned, prev>>
    /\ status_code' = 500
    /\ UNCHANGED <<call, spc, events>>
    /\ UNCHANGED <<merge_calls, inflight, cache, now>>

\* fused = self._fuse_results(kg_results, pg_results, limit)
FuseResults ==
    /\ pc = "fuse"
    /\ results_by_id' = MergeMap(kg_results, pg_results)
    /\ fused' = fuse_results(kg_results, pg_results, limit)
    /\ pc' = "breakdown"
    /\ UNCHANGED <<query_intent, limit, kg_rows, pg_rows, intent, kg_results,
                   pg_results, kg_calls, pg_calls, pg_method, error,
                   source_breakdown, returned, prev>>
    /\ UNCHANGED <<status_code, call, spc, events>>
    /\ merge_calls' = HydrationCalls(PgLoop(EmptyMergeMap, pg_results), kg_results)
    /\ UNCHANGED <<inflight, cache, now>>

\* get_recipe_by_id raises while a graph-only hit is hydrated
FuseResultsRaises ==
    /\ pc = "fuse"
    /\ NeedsHydration(kg_results, pg_results)
    /\ error' = "hydrate"
    /\ pc' = "raised"
    /\ UNCHANGED <<query_intent, limit, kg_rows, pg_rows, intent, kg_results,
                   pg_results, kg_calls, pg_calls, pg_method, results_by_id,
                   fused, source_breakdown, returned, prev>>
    /\ status_code' = 500
    /\ UNCHANGED <<call, spc, events>>
    /\ merge_calls' \in 1..HydrationCalls(PgLoop(EmptyMergeMap, pg_results), kg_results)
    /\ UNCHANGED <<inflight, cache, now>>

\* source_breakdown loop, Thinking, return SearchResponse(...)
Respond ==
    /\ pc = "breakdown"
    /\ source_breakdown' = Breakdown(fused)
    /\ returned' = returned + 1
    /\ pc' = "done"
    /\ UNCHANGED <<query_intent, limit, kg_rows, pg_rows, intent, kg_results,
                   pg_results, kg_calls, pg_calls, pg_method, error,
                   results_by_id, fused, prev>>
    /\ status_code' = 200
    /\ UNCHANGED <<call, spc, events>>
    /\ UNCHANGED <<merge_calls, inflight, cache, now>>

Next ==
    \/ StartSearch
    \/ GraphRetrieve
    \/ GraphRetrieveRaises
    \/ StoreRetrieve
    \/ StoreRetrieveRaises
    \/ FuseResults
    \/ FuseResultsRaises
    \/ Respond

Spec == Init /\ [][Next]_vars


\* ------------------------------------------- the merge on arbitrary lists
\* _fuse_results(kg_results, pg_results, limit) called with any two lists:
\* an id may repeat inside a list
FuseStoreRows ==
    {row_to_result(id, "sql", FALSE) : id \in StoreIds}
        \cup {row_to_result(id, "sql+vector", TRUE) : id \in StoreIds}

FuseGraphHits == {[id |-> id, rating |-> GraphRating[id]] : id \in GraphIds}

SeqsUpTo(S, n) == UNION {[1..k -> S] : k \in 0..n}

FuseInit ==
    /\ query_intent = DefaultIntent
    /\ limit \in Limits
    /\ kg_rows = <<>>
    /\ pg_rows = <<>>
    /\ pc = "fuse"
    /\ intent = DefaultIntent
    /\ kg_results \in SeqsUpTo(FuseGraphHits, MaxFuseRows)
    /\ pg_results \in SeqsUpTo(FuseStoreRows, MaxFuseRows)
    /\ kg_calls = 0
    /\ pg_calls = 0
    /\ pg_method = "none"
    /\ error = "none"
    /\ results_by_id = <<>>
    /\ fused = <<>>
    /\ source_breakdown = ZeroBreakdown
    /\ returned = 0
    /\ prev = NoResponse
    /\ status_code = 0
    /\ call = NoCall
    /\ spc = "off"
    /\ events = <<>>
    /\ merge_calls = 0
    /\ inflight = <<>>
    /\ cache = EmptyCache
    /\ now = 0

FuseNext == FuseResults \/ FuseResultsRaises \/ Respond

FuseSpec == FuseInit /\ [][FuseNext]_vars

\* ------------------------------------------- calls made on their own
\* a retriever method or the explanation generator called once, directly,
\* on a freshly built engine
TruthyInt(n) == n.some /\ n.val # 0

\* f"cuisine={intent.cuisine}" and the like, one per set filter
NamedFilter(name, v) == IF TruthyStr(v) THEN <<<<name, v.val>>>> ELSE <<>>

PrepFilter(n) == IF TruthyInt(n) THEN <<<<"prep<=", n.val, "min">>>> ELSE <<>>

GraphLine(i) ==
    IF i.use_kg \/ TruthyList(i.ingredients_include)
    THEN IF TruthyList(i.ingredients_include)
         THEN <<[path |-> "Knowledge Graph",
                 text |-> "searching for recipes with",
                 args |-> i.ingredients_include.val]>>
         ELSE <<[path |-> "Knowledge Graph",
                 text |-> "exploring ingredient relationships",
                 args |-> <<>>]>>
    ELSE <<>>

StoreLine(i) ==
    IF i.use_sql /\ i.use_vector
    THEN <<[path |-> "SQL+Vector",
            text |-> "hybrid search combining filters with semantic similarity",
            args |-> NamedFilter("cuisine", i.cuisine)
                        \o NamedFilter("diet", i.diet)
                        \o PrepFilter(i.max_prep_time_mins)]>>
    ELSE IF i.use_vector /\ TruthyStr(i.semantic_query)
    THEN <<[path |-> "Vector", text |-> "semantic search for",
            args |-> <<i.semantic_query.val>>]>>
    ELSE IF i.use_sql
    THEN LET filters == NamedFilter("cuisine", i.cuisine)
                            \o NamedFilter("diet", i.diet)
                            \o NamedFilter("course", i.course)
         IN  <<[path |-> "SQL", text |-> "filtering by",
                args |-> IF filters # <<>> THEN filters
                         ELSE <<"structured filters">>]>>
    ELSE <<>>

DefaultLine ==
    [path |-> "Default", text |-> "hybrid search with semantic similarity",
     args |-> <<>>]

\* the default line appended to every explanation
generate_routing_explanation_alwaysDefault(i) ==
    GraphLine(i) \o StoreLine(i) \o <<DefaultLine>>

generate_routing_explanation(i) ==
    LET explanations == GraphLine(i) \o StoreLine(i)
    IN  IF explanations = <<>> THEN <<DefaultLine>> ELSE explanations

UnitInit ==
    /\ query_intent = DefaultIntent
    /\ limit = 0
    /\ kg_rows \in {<<>>, <<1, 3>>}
    /\ pg_rows \in DistinctSeqs(StoreIds, MaxRows)
    /\ pc = "idle"
    /\ intent = DefaultIntent
    /\ kg_results = <<>>
    /\ pg_results = <<>>
    /\ kg_calls = 0
    /\ pg_calls = 0
    /\ pg_method = "none"
    /\ error = "none"
    /\ results_by_id = <<>>
    /\ fused = <<>>
    /\ source_breakdown = ZeroBreakdown
    /\ returned = 0
    /\ prev = NoResponse
    /\ status_code = 0
    /\ call = NoCall
    /\ spc = "off"
    /\ events = <<>>
    /\ merge_calls = 0
    /\ inflight = <<>>
    /\ cache = EmptyCache
    /\ now = 0

\* engine._generate_routing_explanation(intent)
RoutingExplanation ==
    /\ call = NoCall
    /\ \E i \in FullIntents :
        call' = [op |-> "routing_explanation", intent |-> i,
                 out |-> generate_routing_explanation(i)]
    /\ UNCHANGED <<query_intent, limit, kg_rows, pg_rows, pc, intent,
                   kg_results, pg_results, kg_calls, pg_calls, pg_method,
                   error, results_by_id, fused, source_breakdown, returned,
                   prev, status_code, spc, events>>
    /\ UNCHANGED <<merge_calls, inflight, cache, now>>

\* ------------------------------------------ the SQL the store is sent
\* the values of the positional parameter list given to cur.execute
StrParam(s) == [kind |-> "str", s |-> s, n |-> 0]

IntParam(n) == [kind |-> "int", s |-> "", n |-> n]

\* the vector _generate_embedding(text) answers for text
EmbeddingParam(text) == [kind |-> "vector", s |-> text, n |-> 0]

\* f"%{ing}%"
LikePattern == ("egg" :> "%egg%") @@ ("rice" :> "%rice%")

Placeholder == "%s"

\* conditions.append(text); params.append(param)
Cond(text, param) == [text |-> text, param |-> param]

StrCond(v, column) ==
    IF TruthyStr(v)
    THEN <<Cond(<<column, " = ", Placeholder>>, StrParam(v.val))>>
    ELSE <<>>

CeilCond(n, column) ==
    IF TruthyInt(n)
    THEN <<Cond(<<column, " <= ", Placeholder>>, IntParam(n.val))>>
    ELSE <<>>

\* f"ing_{i}" of enumerate(intent.ingredients_include)
UnnestAlias == <<"ing_0", "ing_1">>

IngredientConds(ingredients) ==
    IF TruthyList(ingredients)
    THEN [k \in DOMAIN ingredients.val |->
            Cond(<<"EXISTS (SELECT 1 FROM unnest(ingredients) AS ",
                   UnnestAlias[k], " WHERE ", UnnestAlias[k], " ILIKE ",
                   Placeholder, ")">>,
                 StrParam(LikePattern[ingredients.val[k]]))]
    ELSE <<>>

\* conditions and params of search_sql
sql_conditions(i) ==
    StrCond(i.cuisine, "cuisine")
    \o StrCond(i.diet, "diet")
    \o StrCond(i.course, "course")
    \o CeilCond(i.max_prep_time_mins, "prep_time_mins")
    \o CeilCond(i.max_cook_time_mins, "cook_time_mins")
    \o IngredientConds(i.ingredients_include)

\* the course filter left out of the hybrid search
hybrid_conditions_noCourse(i) ==
    StrCond(i.cuisine, "cuisine")
    \o StrCond(i.diet, "diet")
    \o CeilCond(i.max_prep_time_mins, "prep_time_mins")
    \o CeilCond(i.max_cook_time_mins, "cook_time_mins")
    \o IngredientConds(i.ingredients_include)

\* conditions and params of search_hybrid
hybrid_conditions(i) ==
    StrCond(i.cuisine, "cuisine")
    \o StrCond(i.diet, "diet")
    \o StrCond(i.course, "course")
    \o CeilCond(i.max_prep_time_mins, "prep_time_mins")
    \o CeilCond(i.max_cook_time_mins, "cook_time_mins")
    \o IngredientConds(i.ingredients_include)

RECURSIVE JoinAnd(_)
\* " AND ".join(conditions)
JoinAnd(conds) ==
    IF conds = <<>> THEN <<>>
    ELSE IF Len(conds) = 1 THEN conds[1].text
    ELSE conds[1].text \o <<" AND ">> \o JoinAnd(Tail(conds))

\* where_clause = " AND ".join(conditions) if conditions else "TRUE"
where_clause(conds) == IF conds # <<>> THEN JoinAnd(conds) ELSE <<"TRUE">>

CondParams(conds) == [k \in DOMAIN conds |-> conds[k].param]

SelectColumns ==
    "SELECT id, title, description, url, cuisine, course, diet, prep_time_mins, cook_time_mins, rating, vote_count, ingredients"

\* query and params of search_sql as cur.execute gets them
sql_query(i, lim) ==
    LET conds == sql_conditions(i)
    IN  [where |-> where_clause(conds),
         where_params |-> CondParams(conds),
         text |-> <<SelectColumns, " FROM recipes WHERE ">>
                  \o where_clause(conds)
                  \o <<" ORDER BY rating DESC", " LIMIT ", Placeholder>>,
         params |-> CondParams(conds) \o <<IntParam(lim)>>]

\* the embedding put after the filter values
hybrid_query_params_embeddingLate(embedding, where_params, lim) ==
    where_params \o <<embedding, IntParam(lim)>>

\* query_params = [embedding, *where_params, limit]
hybrid_query_params(embedding, where_params, lim) ==
    <<embedding>> \o where_params \o <<IntParam(lim)>>

\* query and query_params of search_hybrid as cur.execute gets them
hybrid_query(i, lim) ==
    LET conds == hybrid_conditions(i)
        semantic_text == SemanticText(i)
    IN  IF semantic_text # ""
        THEN [where |-> where_clause(conds),
              where_params |-> CondParams(conds),
              text |-> <<SelectColumns, ", embedding <=> ", Placeholder,
                         "::vector as distance", " FROM recipes WHERE ">>
                       \o where_clause(conds)
                       \o <<" ORDER BY distance", " LIMIT ", Placeholder>>,
              params |-> hybrid_query_params(EmbeddingParam(semantic_text),
                                             CondParams(conds), lim)]
        ELSE [where |-> where_clause(conds),
              where_params |-> CondParams(conds),
              text |-> <<SelectColumns, ", NULL as distance",
                         " FROM recipes WHERE ">>
                       \o where_clause(conds)
                       \o <<" ORDER BY rating DESC", " LIMIT ", Placeholder>>,
              params |-> CondParams(conds) \o <<IntParam(lim)>>]

\* pg_query.search_sql(intent, limit)
SearchSql ==
    /\ call = NoCall
    /\ \E i \in FullIntents, lim \in Limits :
        call' = [op |-> "search_sql", intent |-> i, limit |-> lim,
                 embedded |-> <<>>, raised |-> FALSE,
                 query |-> sql_query(i, lim),
                 out |-> search_sql(i, lim)]
    /\ UNCHANGED <<query_intent, limit, kg_rows, pg_rows, pc, intent,
                   kg_results, pg_results, kg_calls, pg_calls, pg_method,
                   error, results_by_id, fused, source_breakdown, returned,
                   prev, status_code, spc, events>>
    /\ UNCHANGED <<merge_calls, inflight, cache, now>>

\* cur.execute raises out of search_sql
SearchSqlRaises ==
    /\ call = NoCall
    /\ \E i \in FullIntents :
        call' = [op |-> "search_sql", intent |-> i, limit |-> 0,
                 embedded |-> <<>>, raised |-> TRUE,
                 query |-> sql_query(i, 0),
                 out |-> <<>>]
    /\ UNCHANGED <<query_intent, limit, kg_rows, pg_rows, pc, intent,
                   kg_results, pg_results, kg_calls, pg_calls, pg_method,
                   error, results_by_id, fused, source_breakdown, returned,
                   prev, status_code, spc, events>>
    /\ UNCHANGED <<merge_calls, inflight, cache, now>>

\* ratings on the 0-5 scale; 0 is what an unrated recipe is stored with
PairRatings == {<<0, 1>>, <<2, 1>>, <<5, 2>>, <<4, 1>>, <<5, 1>>}

PairDistances == {None, Some(<<0, 1>>), Some(<<1, 5>>)}

\* _fuse_results([], [a, b], 2) for two store results a and b of ids 1
\* and 2 with the same distance
ScorePair ==
    /\ call = NoCall
    /\ \E r1 \in PairRatings, r2 \in PairRatings, d \in PairDistances,
          source \in StoreTags :
        LET a == [id |-> 1, rating |-> r1, distance |-> d, source |-> source]
            b == [id |-> 2, rating |-> r2, distance |-> d, source |-> source]
        IN  call' = [op |-> "fuse_pair", pg |-> <<a, b>>,
                     out |-> fuse_results(<<>>, <<a, b>>, 2)]
    /\ UNCHANGED <<query_intent, limit, kg_rows, pg_rows, pc, intent,
                   kg_results, pg_results, kg_calls, pg_calls, pg_method,
                   error, results_by_id, fused, source_breakdown, returned,
                   prev, status_code, spc, events>>
    /\ UNCHANGED <<merge_calls, inflight, cache, now>>

\* ------------------------------------------------------- route dispatch
\* the routes of the router in the order of their decorators; a path is
\* the sequence of its segments below the /api prefix
Routes ==
    <<[method |-> "GET", path |-> <<"health">>, endpoint |-> "health_check"],
      [method |-> "POST", path |-> <<"search">>, endpoint |-> "search_recipes"],
      [method |-> "POST", path |-> <<"search-stream">>,
       endpoint |-> "search_recipes_stream"],
      [method |-> "GET", path |-> <<"recipes", "{recipe_id}">>,
       endpoint |-> "get_recipe"],
      [method |-> "GET", path |-> <<"recipes", "preview">>,
       endpoint |-> "recipe_preview"]>>

\* a path parameter of the pattern matches any one segment
PathParams == {"{recipe_id}"}

PathMatches(pattern, path) ==
    /\ Len(pattern) = Len(path)
    /\ \A k \in DOMAIN pattern :
        pattern[k] \in PathParams \/ pattern[k] = path[k]

\* the first route whose path pattern and method match, 0 if none
FirstMatch(method, path) ==
    LET full == {n \in DOMAIN Routes :
                    /\ PathMatches(Routes[n].path, path)
                    /\ Routes[n].method = method}
    IN  IF full = {} THEN 0
        ELSE CHOOSE n \in full : \A m \in full : n <= m

\* recipe_id: int, the segments that are integers
IntSegment == ("1" :> 1) @@ ("3" :> 3)

RequestPaths ==
    {<<"health">>, <<"search">>, <<"recipes">>, <<"recipes", "1">>,
     <<"recipes", "3">>, <<"recipes", "preview">>}

\* a GET request to the application: the router picks the endpoint, the
\* endpoint answers
Dispatch ==
    /\ call = NoCall
    /\ \E path \in RequestPaths, image_found \in BOOLEAN :
        LET n == FirstMatch("GET", path)
            endpoint == IF n = 0 THEN "none" ELSE Routes[n].endpoint
            status ==
                IF n = 0
                THEN IF \E m \in DOMAIN Routes : PathMatches(Routes[m].path, path)
                     THEN 405 ELSE 404
                ELSE IF endpoint = "get_recipe"
                THEN IF path[2] \notin DOMAIN IntSegment THEN 422
                     ELSE IF get_recipe_by_id(IntSegment[path[2]]).some
                          THEN 200 ELSE 404
                ELSE IF endpoint = "recipe_preview"
                THEN IF image_found THEN 200 ELSE 404
                ELSE 200
        IN  call' = [op |-> "dispatch", method |-> "GET", path |-> path,
                     endpoint |-> endpoint, status |-> status]
    /\ UNCHANGED <<query_intent, limit, kg_rows, pg_rows, pc, intent,
                   kg_results, pg_results, kg_calls, pg_calls, pg_method,
                   error, results_by_id, fused, source_breakdown, returned,
                   prev, status_code, spc, events>>
    /\ UNCHANGED <<merge_calls, inflight, cache, now>>

\* the texts search_hybrid sends to _generate_embedding
HybridEmbedded(i) ==
    IF SemanticText(i) # "" THEN <<SemanticText(i)>> ELSE <<>>

\* pg_query.search_hybrid(intent, limit)
SearchHybrid ==
    /\ call = NoCall
    /\ \E i \in FullIntents, lim \in Limits :
        call' = [op |-> "search_hybrid", intent |-> i, limit |-> lim,
                 embedded |-> HybridEmbedded(i), raised |-> FALSE,
                 query |-> hybrid_query(i, lim),
                 out |-> search_hybrid(i, lim)]
    /\ UNCHANGED <<query_intent, limit, kg_rows, pg_rows, pc, intent,
                   kg_results, pg_results, kg_calls, pg_calls, pg_method,
                   error, results_by_id, fused, source_breakdown, returned,
                   prev, status_code, spc, events>>
    /\ UNCHANGED <<merge_calls, inflight, cache, now>>

\* the embedding request or cur.execute raises out of search_hybrid
SearchHybridRaises ==
    /\ call = NoCall
    /\ \E i \in FullIntents :
        call' = [op |-> "search_hybrid", intent |-> i, limit |-> 0,
                 embedded |-> HybridEmbedded(i), raised |-> TRUE,
                 query |-> hybrid_query(i, 0),
                 out |-> <<>>]
    /\ UNCHANGED <<query_intent, limit, kg_rows, pg_rows, pc, intent,
                   kg_results, pg_results, kg_calls, pg_calls, pg_method,
                   error, results_by_id, fused, source_breakdown, returned,
                   prev, status_code, spc, events>>
    /\ UNCHANGED <<merge_calls, inflight, cache, now>>

\* the query texts search_vector is called with
QueryTexts == {"", "spicy curry"}

\* pg_query.search_vector(query_text, limit): the text goes to the
\* embedding provider as it is
SearchVector ==
    /\ call = NoCall
    /\ \E query_text \in QueryTexts, lim \in Limits :
        call' = [op |-> "search_vector", query_text |-> query_text,
                 limit |-> lim, embedded |-> <<query_text>>,
                 raised |-> FALSE, error |-> "none",
                 out |-> search_vector(query_text, lim)]
    /\ UNCHANGED <<query_intent, limit, kg_rows, pg_rows, pc, intent,
                   kg_results, pg_results, kg_calls, pg_calls, pg_method,
                   error, results_by_id, fused, source_breakdown, returned,
                   prev, status_code, spc, events>>
    /\ UNCHANGED <<merge_calls, inflight, cache, now>>

\* the embedding request or cur.execute raises out of search_vector: the
\* client's or the driver's own exception
SearchVectorRaises ==
    /\ call = NoCall
    /\ \E query_text \in QueryTexts, lim \in Limits :
        call' = [op |-> "search_vector", query_text |-> query_text,
                 limit |-> lim, embedded |-> <<query_text>>,
                 raised |-> TRUE, error |-> "provider", out |-> <<>>]
    /\ UNCHANGED <<query_intent, limit, kg_rows, pg_rows, pc, intent,
                   kg_results, pg_results, kg_calls, pg_calls, pg_method,
                   error, results_by_id, fused, source_breakdown, returned,
                   prev, status_code, spc, events>>
    /\ UNCHANGED <<merge_calls, inflight, cache, now>>

IngredientLists == {<<>>, <<"egg">>, <<"egg", "rice">>}

\* the early return left out
NoIngredients_never(ingredients) == FALSE

\* if not ingredients: return []
NoIngredients(ingredients) == Len(ingredients) = 0

\* kg_query.get_recipes_by_ingredient_combination(ingredients, limit)
IngredientCombination ==
    /\ call = NoCall
    /\ \E ingredients \in IngredientLists, lim \in Limits :
        call' =
            IF NoIngredients(ingredients)
            THEN [op |-> "ingredient_combination",
                  ingredients |-> ingredients, limit |-> lim,
                  session_runs |-> 0, raised |-> FALSE, out |-> <<>>]
            ELSE LET rows == LimitRows(OrderBy(kg_rows, Desc(GraphRating)), lim)
                 IN  [op |-> "ingredient_combination",
                      ingredients |-> ingredients, limit |-> lim,
                      session_runs |-> 1, raised |-> FALSE,
                      out |-> [k \in DOMAIN rows |->
                                [id |-> rows[k],
                                 rating |-> GraphRating[rows[k]]]]]
    /\ UNCHANGED <<query_intent, limit, kg_rows, pg_rows, pc, intent,
                   kg_results, pg_results, kg_calls, pg_calls, pg_method,
                   error, results_by_id, fused, source_breakdown, returned,
                   prev, status_code, spc, events>>
    /\ UNCHANGED <<merge_calls, inflight, cache, now>>

\* session.run raises out of get_recipes_by_ingredient_combination
IngredientCombinationRaises ==
    /\ call = NoCall
    /\ \E ingredients \in IngredientLists, lim \in Limits :
        /\ ~NoIngredients(ingredients)
        /\ call' = [op |-> "ingredient_combination",
                    ingredients |-> ingredients, limit |-> lim,
                    session_runs |-> 1, raised |-> TRUE, out |-> <<>>]
    /\ UNCHANGED <<query_intent, limit, kg_rows, pg_rows, pc, intent,
                   kg_results, pg_results, kg_calls, pg_calls, pg_method,
                   error, results_by_id, fused, source_breakdown, returned,
                   prev, status_code, spc, events>>
    /\ UNCHANGED <<merge_calls, inflight, cache, now>>

\* the Cypher text as its clauses, in the order they stand in the query
Clause(kw, text) == [kw |-> kw, text |-> text]

\* f"MATCH (r)-[:CONTAINS]->(i{i}:Ingredient) WHERE toLower(i{i}.name)
\* CONTAINS toLower($ing_{i})" for i = 0, 1
IngredientPattern ==
    <<"(r)-[:CONTAINS]->(i0:Ingredient)", "(r)-[:CONTAINS]->(i1:Ingredient)">>

IngredientPredicate ==
    <<"toLower(i0.name) CONTAINS toLower($ing_0)",
      "toLower(i1.name) CONTAINS toLower($ing_1)">>

\* one part per ingredient, a MATCH with its own WHERE
IngredientClauses(ingredients) ==
    [n \in 1..(2 * Len(ingredients)) |->
        IF n % 2 = 1
        THEN Clause("MATCH", IngredientPattern[(n + 1) \div 2])
        ELSE Clause("WHERE", <<IngredientPredicate[n \div 2]>>)]

OptClause(v, text) == IF TruthyStr(v) THEN <<Clause("MATCH", text)>> ELSE <<>>

TimeCeilings(i) ==
    (IF TruthyInt(i.max_prep_time_mins)
     THEN <<"r.prep_time_mins <= $max_prep_time">> ELSE <<>>)
    \o (IF TruthyInt(i.max_cook_time_mins)
        THEN <<"r.cook_time_mins <= $max_cook_time">> ELSE <<>>)

\* kg_query.search: query_parts joined
kg_search_query(i) ==
    LET match_clauses ==
            <<Clause("MATCH", "(r:Recipe)")>>
            \o OptClause(i.cuisine, "(r)-[:HAS_CUISINE]->(c:Cuisine {name: $cuisine})")
            \o OptClause(i.diet, "(r)-[:HAS_DIET]->(d:Diet {name: $diet})")
            \o OptClause(i.course, "(r)-[:HAS_COURSE]->(co:Course {name: $course})")
            \o (IF TruthyList(i.ingredients_include)
                THEN IngredientClauses(i.ingredients_include.val) ELSE <<>>)
        where_clauses == TimeCeilings(i)
    IN  match_clauses
        \o (IF where_clauses # <<>>
            THEN <<Clause("WHERE", where_clauses)>> ELSE <<>>)
        \o <<Clause("RETURN DISTINCT", "r.id, r.title, r.rating, r.prep_time_mins, r.cook_time_mins"),
             Clause("ORDER BY", "r.rating DESC"),
             Clause("LIMIT", "$limit")>>

\* kg_query.search(intent, limit) up to session.run(query, params)
KgSearchQuery ==
    /\ call = NoCall
    /\ \E i \in FullIntents :
        call' = [op |-> "kg_search", intent |-> i,
                 query |-> kg_search_query(i)]
    /\ UNCHANGED <<query_intent, limit, kg_rows, pg_rows, pc, intent,
                   kg_results, pg_results, kg_calls, pg_calls, pg_method,
                   error, results_by_id, fused, source_breakdown, returned,
                   prev, status_code, spc, events>>
    /\ UNCHANGED <<merge_calls, inflight, cache, now>>

UnitNext ==
    \/ RoutingExplanation
    \/ SearchHybrid
    \/ SearchHybridRaises
    \/ SearchVector
    \/ SearchVectorRaises
    \/ IngredientCombination
    \/ IngredientCombinationRaises
    \/ KgSearchQuery
    \/ SearchSql
    \/ SearchSqlRaises
    \/ ScorePair
    \/ Dispatch

UnitSpec == UnitInit /\ [][UnitNext]_vars

\* ------------------------------------------------- the streamed search
\* _format_sse(event, data)
format_sse(event, data) == [event |-> event, data |-> data]

Chunks(evs) == {n \in DOMAIN evs : evs[n].event = "reasoning_chunk"}

StreamInit ==
    /\ query_intent \in Intents
    /\ limit \in Limits
    /\ kg_rows \in {<<>>, <<1, 3>>}
    /\ pg_rows \in DistinctSeqs(StoreIds, MaxRows)
    /\ pc = "idle"
    /\ intent = DefaultIntent
    /\ kg_results = <<>>
    /\ pg_results = <<>>
    /\ kg_calls = 0
    /\ pg_calls = 0
    /\ pg_method = "none"
    /\ error = "none"
    /\ results_by_id = <<>>
    /\ fused = <<>>
    /\ source_breakdown = ZeroBreakdown
    /\ returned = 0
    /\ prev = NoResponse
    /\ status_code = 0
    /\ call = NoCall
    /\ spc = "start"
    /\ events = <<>>
    /\ merge_calls = 0
    /\ inflight = <<>>
    /\ cache = EmptyCache
    /\ now = 0

\* yield phase reasoning
StreamOpen ==
    /\ spc = "start"
    /\ events' = Append(events, format_sse("phase", "reasoning"))
    /\ spc' = "reasoning"
    /\ UNCHANGED <<query_intent, limit, kg_rows, pg_rows, pc, intent,
                   kg_results, pg_results, kg_calls, pg_calls, pg_method,
                   error, results_by_id, fused, source_breakdown, returned,
                   prev, status_code, call>>
    /\ UNCHANGED <<merge_calls, inflight, cache, now>>

\* async for chunk in stream_reasoning(query): yield reasoning_chunk
StreamReasoningChunk ==
    /\ spc = "reasoning"
    /\ Cardinality(Chunks(events)) < MaxChunks
    /\ events' = Append(events, format_sse("reasoning_chunk", "text"))
    /\ UNCHANGED <<query_intent, limit, kg_rows, pg_rows, pc, intent,
                   kg_results, pg_results, kg_calls, pg_calls, pg_method,
                   error, results_by_id, fused, source_breakdown, returned,
                   prev, status_code, call, spc>>
    /\ UNCHANGED <<merge_calls, inflight, cache, now>>

\* the completion request of stream_reasoning raises: the generator ends
StreamReasoningRaises ==
    /\ spc = "reasoning"
    /\ spc' = "failed"
    /\ UNCHANGED <<query_intent, limit, kg_rows, pg_rows, pc, intent,
                   kg_results, pg_results, kg_calls, pg_calls, pg_method,
                   error, results_by_id, fused, source_breakdown, returned,
                   prev, status_code, call, events>>
    /\ UNCHANGED <<merge_calls, inflight, cache, now>>

\* yield phase parsing
StreamParsing ==
    /\ spc = "reasoning"
    /\ events' = Append(events, format_sse("phase", "parsing"))
    /\ spc' = "parsing"
    /\ UNCHANGED <<query_intent, limit, kg_rows, pg_rows, pc, intent,
                   kg_results, pg_results, kg_calls, pg_calls, pg_method,
                   error, results_by_id, fused, source_breakdown, returned,
                   prev, status_code, call>>
    /\ UNCHANGED <<merge_calls, inflight, cache, now>>

\* intent = parse_user_query(query); routing = ...; yield intent
StreamIntent ==
    /\ spc = "parsing"
    /\ events' = Append(events,
            format_sse("intent",
                [parsed_intent |-> query_intent,
                 routing_explanation |->
                    generate_routing_explanation(query_intent)]))
    /\ spc' = "intent"
    /\ UNCHANGED <<query_intent, limit, kg_rows, pg_rows, pc, intent,
                   kg_results, pg_results, kg_calls, pg_calls, pg_method,
                   error, results_by_id, fused, source_breakdown, returned,
                   prev, status_code, call>>
    /\ UNCHANGED <<merge_calls, inflight, cache, now>>

\* parse_user_query raises: the generator ends
StreamIntentRaises ==
    /\ spc = "parsing"
    /\ spc' = "failed"
    /\ UNCHANGED <<query_intent, limit, kg_rows, pg_rows, pc, intent,
                   kg_results, pg_results, kg_calls, pg_calls, pg_method,
                   error, results_by_id, fused, source_breakdown, returned,
                   prev, status_code, call, events>>
    /\ UNCHANGED <<merge_calls, inflight, cache, now>>

\* yield phase querying
StreamQuerying ==
    /\ spc = "intent"
    /\ events' = Append(events, format_sse("phase", "querying"))
    /\ spc' = "querying"
    /\ UNCHANGED <<query_intent, limit, kg_rows, pg_rows, pc, intent,
                   kg_results, pg_results, kg_calls, pg_calls, pg_method,
                   error, results_by_id, fused, source_breakdown, returned,
                   prev, status_code, call>>
    /\ UNCHANGED <<merge_calls, inflight, cache, now>>

\* what parse_user_query can answer when search() asks the model again
\* for the query the generator has already had parsed: the answer is
\* produced anew by the language model, so it need not be the first one
ParseAnswers(i) == {i, [i EXCEPT !.use_kg = ~i.use_kg]}

\* result = engine.search(query, limit=limit), the whole of search(),
\* which starts with its own intent = parse_user_query(query)
StreamSearch ==
    /\ spc = "querying"
    /\ \E i \in ParseAnswers(query_intent) :
        LET kg == IF GraphRouted(i) THEN kg_search(i, limit * 2) ELSE <<>>
            pg == StoreCall(i, limit * 2)
        IN  /\ intent' = i
            /\ kg_results' = kg
            /\ kg_calls' = IF GraphRouted(i) THEN 1 ELSE 0
            /\ pg_results' = pg
            /\ pg_calls' = 1
            /\ pg_method' = StoreMethod(i)
            /\ results_by_id' = MergeMap(kg, pg)
            /\ fused' = fuse_results(kg, pg, limit)
            /\ source_breakdown' = Breakdown(fuse_results(kg, pg, limit))
            /\ merge_calls' = HydrationCalls(PgLoop(EmptyMergeMap, pg), kg)
    /\ returned' = returned + 1
    /\ pc' = "done"
    /\ spc' = "searched"
    /\ UNCHANGED <<query_intent, limit, kg_rows, pg_rows, error, prev,
                   status_code, call, events>>
    /\ UNCHANGED <<inflight, cache, now>>

\* engine.search raises: the generator ends
StreamSearchRaises ==
    /\ spc = "querying"
    /\ \E i \in ParseAnswers(query_intent), e \in {"kg", "pg", "hydrate"} :
        /\ e = "kg" => GraphRouted(i)
        /\ e = "hydrate" =>
                /\ GraphRouted(i)
                /\ NeedsHydration(kg_search(i, limit * 2),
                                  StoreCall(i, limit * 2))
        /\ error' = e
        /\ intent' = i
    /\ pc' = "raised"
    /\ spc' = "failed"
    /\ UNCHANGED <<query_intent, limit, kg_rows, pg_rows, kg_results,
                   pg_results, kg_calls, pg_calls, pg_method, results_by_id,
                   fused, source_breakdown, returned, prev, status_code,
                   call, events>>
    /\ UNCHANGED <<merge_calls, inflight, cache, now>>

\* yield phase complete
StreamComplete ==
    /\ spc = "searched"
    /\ events' = Append(events, format_sse("phase", "complete"))
    /\ spc' = "complete"
    /\ UNCHANGED <<query_intent, limit, kg_rows, pg_rows, pc, intent,
                   kg_results, pg_results, kg_calls, pg_calls, pg_method,
                   error, results_by_id, fused, source_breakdown, returned,
                   prev, status_code, call>>
    /\ UNCHANGED <<merge_calls, inflight, cache, now>>

\* the results sent as soon as the search has returned
StreamResults_beforeComplete ==
    /\ spc = "searched"
    /\ events' = Append(events,
            format_sse("results",
                [results |-> fused, source_breakdown |-> source_breakdown]))
    /\ spc' = "end"
    /\ UNCHANGED <<query_intent, limit, kg_rows, pg_rows, pc, intent,
                   kg_results, pg_results, kg_calls, pg_calls, pg_method,
                   error, results_by_id, fused, source_breakdown, returned,
                   prev, status_code, call>>
    /\ UNCHANGED <<merge_calls, inflight, cache, now>>

\* yield results; the generator ends
StreamResults ==
    /\ spc = "complete"
    /\ events' = Append(events,
            format_sse("results",
                [results |-> fused, source_breakdown |-> source_breakdown]))
    /\ spc' = "end"
    /\ UNCHANGED <<query_intent, limit, kg_rows, pg_rows, pc, intent,
                   kg_results, pg_results, kg_calls, pg_calls, pg_method,
                   error, results_by_id, fused, source_breakdown, returned,
                   prev, status_code, call>>
    /\ UNCHANGED <<merge_calls, inflight, cache, now>>

StreamNext ==
    \/ StreamOpen
    \/ StreamReasoningChunk
    \/ StreamReasoningRaises
    \/ StreamParsing
    \/ StreamIntent
    \/ StreamIntentRaises
    \/ StreamQuerying
    \/ StreamSearch
    \/ StreamSearchRaises
    \/ StreamComplete
    \/ StreamResults

StreamSpec == StreamInit /\ [][StreamNext]_vars

\* ------------------------------------------- searches in flight together
\* several search() calls on the one engine of main.py, their steps
\* interleaved; each call has its own locals
Searches == 1..MaxInflight

ConcIntents ==
    {[DefaultIntent EXCEPT !.use_kg = TRUE, !.use_sql = TRUE,
                           !.use_vector = TRUE,
                           !.semantic_query = Some("spicy curry")],
     [DefaultIntent EXCEPT !.use_sql = TRUE]}

IdleSearch ==
    [pc |-> "idle", intent |-> DefaultIntent, limit |-> 0,
     kg_results |-> <<>>, pg_results |-> <<>>, todo_pg |-> <<>>,
     todo_kg |-> <<>>, results_by_id |-> <<>>, fused |-> <<>>,
     source_breakdown |-> ZeroBreakdown]

\* one merge map on the engine, shared by every search
MapOwner_engine(s) == 1

\* results_by_id is a local of the _fuse_results call of search s
MapOwner(s) == s

ConcInit ==
    /\ query_intent = DefaultIntent
    /\ limit = 0
    /\ kg_rows \in {<<1, 3>>, <<2, 1>>}
    /\ pg_rows \in {<<1, 2>>, <<2>>}
    /\ pc = "idle"
    /\ intent = DefaultIntent
    /\ kg_results = <<>>
    /\ pg_results = <<>>
    /\ kg_calls = 0
    /\ pg_calls = 0
    /\ pg_method = "none"
    /\ error = "none"
    /\ results_by_id = <<>>
    /\ fused = <<>>
    /\ source_breakdown = ZeroBreakdown
    /\ returned = 0
    /\ prev = NoResponse
    /\ status_code = 0
    /\ call = NoCall
    /\ spc = "off"
    /\ events = <<>>
    /\ merge_calls = 0
    /\ inflight = [s \in Searches |-> IdleSearch]
    /\ cache = EmptyCache
    /\ now = 0

\* search(): intent = parse_user_query(query)
ConcStart(s) ==
    /\ inflight[s].pc = "idle"
    /\ \E i \in ConcIntents, lim \in {1, MaxLimit} :
        inflight' = [inflight EXCEPT ![s] =
                        [IdleSearch EXCEPT !.pc = "kg", !.intent = i,
                                           !.limit = lim]]
    /\ UNCHANGED <<query_intent, limit, kg_rows, pg_rows, pc, intent,
                   kg_results, pg_results, kg_calls, pg_calls, pg_method,
                   error, results_by_id, fused, source_breakdown, returned,
                   prev, status_code, call, spc, events, merge_calls,
                   cache, now>>

\* the graph call of search s
ConcGraphRetrieve(s) ==
    /\ inflight[s].pc = "kg"
    /\ inflight' = [inflight EXCEPT
            ![s].kg_results =
                IF GraphRouted(inflight[s].intent)
                THEN kg_search(inflight[s].intent, inflight[s].limit * 2)
                ELSE <<>>,
            ![s].pc = "pg"]
    /\ UNCHANGED <<query_intent, limit, kg_rows, pg_rows, pc, intent,
                   kg_results, pg_results, kg_calls, pg_calls, pg_method,
                   error, results_by_id, fused, source_breakdown, returned,
                   prev, status_code, call, spc, events, merge_calls,
                   cache, now>>

\* the store call of search s
ConcStoreRetrieve(s) ==
    /\ inflight[s].pc = "pg"
    /\ inflight' = [inflight EXCEPT
            ![s].pg_results =
                StoreCall(inflight[s].intent, inflight[s].limit * 2),
            ![s].pc = "fuse"]
    /\ UNCHANGED <<query_intent, limit, kg_rows, pg_rows, pc, intent,
                   kg_results, pg_results, kg_calls, pg_calls, pg_method,
                   error, results_by_id, fused, source_breakdown, returned,
                   prev, status_code, call, spc, events, merge_calls,
                   cache, now>>

\* a retrieval call of search s raises; search s ends
ConcRetrieveRaises(s) ==
    /\ inflight[s].pc \in {"kg", "pg"}
    /\ inflight[s].pc = "kg" => GraphRouted(inflight[s].intent)
    /\ inflight' = [inflight EXCEPT ![s].pc = "raised"]
    /\ UNCHANGED <<query_intent, limit, kg_rows, pg_rows, pc, intent,
                   kg_results, pg_results, kg_calls, pg_calls, pg_method,
                   error, results_by_id, fused, source_breakdown, returned,
                   prev, status_code, call, spc, events, merge_calls,
                   cache, now>>

\* _fuse_results entered: results_by_id = {}
ConcFuseBegin(s) ==
    /\ inflight[s].pc = "fuse"
    /\ inflight' = [inflight EXCEPT
            ![MapOwner(s)].results_by_id = EmptyMergeMap,
            ![s].todo_pg = inflight[s].pg_results,
            ![s].todo_kg = inflight[s].kg_results,
            ![s].pc = "merge"]
    /\ UNCHANGED <<query_intent, limit, kg_rows, pg_rows, pc, intent,
                   kg_results, pg_results, kg_calls, pg_calls, pg_method,
                   error, results_by_id, fused, source_breakdown, returned,
                   prev, status_code, call, spc, events, merge_calls,
                   cache, now>>

\* one turn of `for pg_result in pg_results`
ConcFusePgStep(s) ==
    /\ inflight[s].pc = "merge"
    /\ inflight[s].todo_pg # <<>>
    /\ inflight' = [inflight EXCEPT
            ![MapOwner(s)].results_by_id =
                PgStep(@, Head(inflight[s].todo_pg)),
            ![s].todo_pg = Tail(inflight[s].todo_pg)]
    /\ UNCHANGED <<query_intent, limit, kg_rows, pg_rows, pc, intent,
                   kg_results, pg_results, kg_calls, pg_calls, pg_method,
                   error, results_by_id, fused, source_breakdown, returned,
                   prev, status_code, call, spc, events, merge_calls,
                   cache, now>>

\* one turn of `for kg_result in kg_results`
ConcFuseKgStep(s) ==
    /\ inflight[s].pc = "merge"
    /\ inflight[s].todo_pg = <<>>
    /\ inflight[s].todo_kg # <<>>
    /\ inflight' = [inflight EXCEPT
            ![MapOwner(s)].results_by_id =
                KgStep(@, Head(inflight[s].todo_kg)),
            ![s].todo_kg = Tail(inflight[s].todo_kg)]
    /\ UNCHANGED <<query_intent, limit, kg_rows, pg_rows, pc, intent,
                   kg_results, pg_results, kg_calls, pg_calls, pg_method,
                   error, results_by_id, fused, source_breakdown, returned,
                   prev, status_code, call, spc, events, merge_calls,
                   cache, now>>

\* sort, cut, source_breakdown, return
ConcRespond(s) ==
    /\ inflight[s].pc = "merge"
    /\ inflight[s].todo_pg = <<>>
    /\ inflight[s].todo_kg = <<>>
    /\ LET out == Slice(SortDesc(Values(inflight[MapOwner(s)].results_by_id)),
                        inflight[s].limit)
       IN  inflight' = [inflight EXCEPT
                ![s].fused = out,
                ![s].source_breakdown = Breakdown(out),
                ![s].pc = "done"]
    /\ UNCHANGED <<query_intent, limit, kg_rows, pg_rows, pc, intent,
                   kg_results, pg_results, kg_calls, pg_calls, pg_method,
                   error, results_by_id, fused, source_breakdown, returned,
                   prev, status_code, call, spc, events, merge_calls,
                   cache, now>>

ConcNext ==
    \E s \in Searches :
        \/ ConcStart(s)
        \/ ConcGraphRetrieve(s)
        \/ ConcStoreRetrieve(s)
        \/ ConcRetrieveRaises(s)
        \/ ConcFuseBegin(s)
        \/ ConcFusePgStep(s)
        \/ ConcFuseKgStep(s)
        \/ ConcRespond(s)

ConcSpec == ConcInit /\ [][ConcNext]_vars

\* --------------------------------------------- the preview-image cache
\* CACHE_TTL_SECONDS = 60 * 60 * 6
CACHE_TTL_SECONDS == 60 * 60 * 6

\* the clock is read at steps of half a TTL
TickSeconds == CACHE_TTL_SECONDS \div 2

\* what _fetch_preview_image answers: an image URL, or None when the
\* request fails or the page names no image
FetchOutcomes == {None, Some("https://img.example/1.jpg")}

\* urlparse(url).scheme in {"http", "https"}
Scheme == ("https://a.example/r1" :> "https") @@ ("http://b.example/r2" :> "http")
          @@ ("ftp://c.example/r3" :> "ftp")

normalize_url(url) == IF Scheme[url] \in {"http", "https"} THEN Some(url) ELSE None

\* the tuple of a cached url has expired: expires < time.time()
Expired(entry, t) == entry.val.expires < t

\* _cache_get(url) at time t: the value of a live entry, else None
cache_get(c, url, t) ==
    IF ~c[url].some THEN None
    ELSE IF Expired(c[url], t) THEN None
    ELSE c[url].val.value

\* _cache after _cache_get(url): an expired entry is popped
cache_after_get(c, url, t) ==
    IF c[url].some /\ Expired(c[url], t) THEN [c EXCEPT ![url] = None] ELSE c

\* _cache_set(url, value) at time t
cache_set(c, url, value, t) ==
    [c EXCEPT ![url] = Some([value |-> value,
                             expires |-> t + CACHE_TTL_SECONDS])]

PreviewInit ==
    /\ query_intent = DefaultIntent
    /\ limit = 0
    /\ kg_rows = <<>>
    /\ pg_rows = <<>>
    /\ pc = "idle"
    /\ intent = DefaultIntent
    /\ kg_results = <<>>
    /\ pg_results = <<>>
    /\ kg_calls = 0
    /\ pg_calls = 0
    /\ pg_method = "none"
    /\ error = "none"
    /\ results_by_id = <<>>
    /\ fused = <<>>
    /\ source_breakdown = ZeroBreakdown
    /\ returned = 0
    /\ prev = NoResponse
    /\ status_code = 0
    /\ call = NoCall
    /\ spc = "off"
    /\ events = <<>>
    /\ merge_calls = 0
    /\ inflight = <<>>
    /\ cache = EmptyCache
    /\ now = 0

\* get_recipe_preview_image(url) for a url that is not http or https
PreviewRejected ==
    /\ \E url \in Urls :
        /\ ~normalize_url(url).some
        /\ call' = [op |-> "preview", url |-> url, at |-> now,
                    before |-> cache[url], fetched |-> FALSE, out |-> None]
    /\ UNCHANGED <<query_intent, limit, kg_rows, pg_rows, pc, intent,
                   kg_results, pg_results, kg_calls, pg_calls, pg_method,
                   error, results_by_id, fused, source_breakdown, returned,
                   prev, status_code, spc, events, merge_calls, inflight,
                   cache, now>>

\* get_recipe_preview_image(url): _cache_get gives a value that is not None
PreviewCached ==
    /\ \E url \in Urls :
        /\ normalize_url(url).some
        /\ cache_get(cache, url, now) # None
        /\ call' = [op |-> "preview", url |-> url, at |-> now,
                    before |-> cache[url], fetched |-> FALSE,
                    out |-> cache_get(cache, url, now)]
        /\ cache' = cache_after_get(cache, url, now)
    /\ UNCHANGED <<query_intent, limit, kg_rows, pg_rows, pc, intent,
                   kg_results, pg_results, kg_calls, pg_calls, pg_method,
                   error, results_by_id, fused, source_breakdown, returned,
                   prev, status_code, spc, events, merge_calls, inflight,
                   now>>

\* get_recipe_preview_image(url): _cache_get gives None, the page is
\* fetched and the outcome stored
PreviewFetched ==
    /\ \E url \in Urls, image_url \in FetchOutcomes :
        /\ normalize_url(url).some
        /\ cache_get(cache, url, now) = None
        /\ call' = [op |-> "preview", url |-> url, at |-> now,
                    before |-> cache[url], fetched |-> TRUE,
                    out |-> image_url]
        /\ cache' = cache_set(cache_after_get(cache, url, now), url,
                              image_url, now)
    /\ UNCHANGED <<query_intent, limit, kg_rows, pg_rows, pc, intent,
                   kg_results, pg_results, kg_calls, pg_calls, pg_method,
                   error, results_by_id, fused, source_breakdown, returned,
                   prev, status_code, spc, events, merge_calls, inflight,
                   now>>

\* time.time() moves on between two calls
Tick ==
    /\ now < MaxTicks * TickSeconds
    /\ now' = now + TickSeconds
    /\ UNCHANGED <<query_intent, limit, kg_rows, pg_rows, pc, intent,
                   kg_results, pg_results, kg_calls, pg_calls, pg_method,
                   error, results_by_id, fused, source_breakdown, returned,
                   prev, status_code, call, spc, events, merge_calls,
                   inflight, cache>>

PreviewNext ==
    \/ PreviewRejected
    \/ PreviewCached
    \/ PreviewFetched
    \/ Tick

PreviewSpec == PreviewInit /\ [][PreviewNext]_vars

\* ------------------------------------------------------------ properties
Ids(rows) == {rows[n].id : n \in DOMAIN rows}

Merged == pc \in {"breakdown", "done"}

\* C1: every search issues exactly one primary store search call, never
\* zero and never two, and the call is search_hybrid when use_sql and
\* use_vector are both set, else search_vector when use_vector is set and
\* semantic_query is non-empty, else search_sql when use_sql is set, else
\* search_hybrid.
C1_ExactlyOneStoreCall ==
    /\ pg_calls <= 1
    /\ pc \in {"done", "raised"} =>
        /\ pg_calls = 1
        /\ pg_method =
            IF intent.use_sql /\ intent.use_vector THEN "search_hybrid"
            ELSE IF /\ intent.use_vector
                    /\ intent.semantic_query.some
                    /\ intent.semantic_query.val # ""
                 THEN "search_vector"
            ELSE IF intent.use_sql THEN "search_sql"
            ELSE "search_hybrid"

\* C2: once a search is past its graph step, it has called the Graph
\* Retriever's search once if use_kg is set or ingredients_include is
\* non-empty, and not at all otherwise.
C2_GraphInvokedIff ==
    /\ kg_calls <= 1
    /\ pc \notin {"idle", "kg"} =>
        (kg_calls = 1 <=>
            \/ intent.use_kg
            \/ /\ intent.ingredients_include.some
               /\ intent.ingredients_include.val # <<>>)

C2_Witness ==
    /\ pc = "done"
    /\ ~intent.use_kg
    /\ intent.ingredients_include = Some(<<"egg">>)
    /\ kg_calls = 1

C4_DedupLaw ==
    Merged => \A a, b \in DOMAIN fused : a # b => fused[a].id # fused[b].id

C4_Witness ==
    /\ Merged
    /\ Len(fused) = 2
    /\ \E a, b \in DOMAIN pg_results : a # b /\ pg_results[a].id = pg_results[b].id
    /\ \E a, b \in DOMAIN kg_results : a # b /\ kg_results[a].id = kg_results[b].id
    /\ Ids(kg_results) \cap Ids(pg_results) # {}

C6_BreakdownCounts ==
    pc = "done" =>
        /\ DOMAIN source_breakdown = SourceTags
        /\ \A tag \in SourceTags :
            source_breakdown[tag] =
                Cardinality({n \in DOMAIN fused : tag \in Range(fused[n].sources)})
        /\ source_breakdown["kg"] + source_breakdown["sql"]
                + source_breakdown["vector"] + source_breakdown["sql+vector"]
           = Len(fused)
                + Cardinality({n \in DOMAIN fused : Len(fused[n].sources) = 2})
        /\ \A n \in DOMAIN fused : Len(fused[n].sources) \in {1, 2}

C6_Witness ==
    /\ pc = "done"
    /\ Len(fused) < Len(results_by_id)
    /\ \E n \in DOMAIN fused : Len(fused[n].sources) = 2
    /\ \E n \in DOMAIN results_by_id :
        /\ results_by_id[n].value.sources = <<"sql+vector">>
        /\ source_breakdown["sql+vector"] = 1

\* C7: when the merge has ended, every store result without a graph hit of
\* its id has final_score = 0.6 * vector_score + 0.4 * rating_score, with
\* vector_score = 1 / (1 + distance), or 0.5 without a distance, and
\* rating_score = rating / 5, or 0.5 for a rating of 0, and its sources
\* are exactly its source tag.
C7_StoreScore ==
    Merged =>
        \A m \in DOMAIN pg_results :
            pg_results[m].id \notin Ids(kg_results) =>
                \E n \in DOMAIN results_by_id :
                    LET e == results_by_id[n].value
                        r == pg_results[m]
                        \* vector_score = vn / vd, rating_score = rn / rd
                        vn == IF r.distance.some THEN r.distance.val[2] ELSE 1
                        vd == IF r.distance.some
                              THEN r.distance.val[1] + r.distance.val[2] ELSE 2
                        rn == IF r.rating[1] # 0 THEN r.rating[1] ELSE 1
                        rd == IF r.rating[1] # 0 THEN 5 * r.rating[2] ELSE 2
                    IN  /\ e.id = r.id
                        /\ e.final_score[1] * 10 * vd * rd
                           = e.final_score[2] * (6 * vn * rd + 4 * rn * vd)
                        /\ e.sources = <<r.source>>

\* distance 0.2 and rating 4.0 give 0.82
C7_Witness ==
    /\ pc = "done"
    /\ \E m \in DOMAIN pg_results :
        /\ pg_results[m].id \notin Ids(kg_results)
        /\ pg_results[m].distance = Some(<<1, 5>>)
        /\ pg_results[m].rating = <<4, 1>>
        /\ \E n \in DOMAIN fused :
            /\ fused[n].id = pg_results[m].id
            /\ fused[n].final_score = <<41, 50>>
            /\ fused[n].sources = <<"sql+vector">>
    /\ \E m \in DOMAIN pg_results :
        /\ pg_results[m].id \notin Ids(kg_results)
        /\ pg_results[m].rating = <<0, 1>>

\* C8: a search that returns after an earlier search of the same intent and
\* limit has returned, with the stores unchanged, returns the same results
\* in the same order with the same scores and sources.
C8_Idempotent ==
    (pc = "done" /\ returned >= 2) =>
        /\ fused = prev.results
        /\ source_breakdown = prev.source_breakdown

C8_Witness ==
    /\ pc = "done"
    /\ returned = 2
    /\ Len(fused) = 2
    /\ \E n \in DOMAIN fused : fused[n].sources = <<"kg">>
    /\ \E n \in DOMAIN fused : Len(fused[n].sources) = 2

\* C9: a search in which one retrieval call, the graph search or the
\* primary store search, failed does not end by raising: it returns what
\* the other path gave.
C9_PartialAvailability == ~(pc = "raised" /\ error \in {"kg", "pg"})

\* C10: graph hits that are neither in the store results nor found by
\* get_recipe_by_id leave the search as it is without them: same fused
\* list, same source_breakdown, none of their ids in the results, no error.
Dangling(kg, pg) ==
    {kg[n].id : n \in DOMAIN kg} \ (Ids(pg) \cup StoreIds)

C10_DanglingDropped ==
    Merged =>
        LET gone == Dangling(kg_results, pg_results)
            Kept(hit) == hit.id \notin gone
            without == fuse_results(SelectSeq(kg_results, Kept), pg_results, limit)
        IN  /\ fused = without
            /\ \A n \in DOMAIN fused : fused[n].id \notin gone
            /\ error = "none"
            /\ pc = "done" => source_breakdown = Breakdown(without)

C10_Witness ==
    /\ pc = "done"
    /\ Dangling(kg_results, pg_results) # {}
    /\ Len(kg_results) = 2
    /\ Len(fused) = 2
    /\ source_breakdown["kg"] = 1

\* C11: a search whose primary store call failed while the graph path gave
\* no results (not called, or called and empty) ends by raising to its
\* caller: it never goes on to merge and return a response with no results
\* and an all-zero source_breakdown.
C11_StoreFailureSurfaces ==
    (error = "pg" /\ kg_results = <<>>) =>
        /\ pc = "raised"
        /\ ~(fused = <<>> /\ source_breakdown = ZeroBreakdown /\ status_code = 200)

C11_Witness ==
    /\ pc = "raised"
    /\ error = "pg"
    /\ pg_calls = 1
    /\ kg_calls = 1
    /\ kg_results = <<>>

Paths(lines) == [n \in DOMAIN lines |-> lines[n].path]

\* C12: the routing explanation of an intent is a non-empty list made, in
\* this order, of the graph line exactly when use_kg is set or
\* ingredients_include is non-empty, then at most one store line: the
\* hybrid line if use_sql and use_vector, else the semantic line if
\* use_vector and semantic_query is non-empty, else the filter line if
\* use_sql; the default line 'hybrid search with semantic similarity' is
\* there exactly when neither rule gave a line, and then it is the only
\* line.
C12_ExplanationShape ==
    call.op = "routing_explanation" =>
        LET i == call.intent
            out == call.out
            graph == \/ i.use_kg
                     \/ i.ingredients_include.some
                            /\ i.ingredients_include.val # <<>>
            store == IF i.use_sql /\ i.use_vector THEN <<"SQL+Vector">>
                     ELSE IF /\ i.use_vector
                             /\ i.semantic_query.some
                             /\ i.semantic_query.val # ""
                          THEN <<"Vector">>
                     ELSE IF i.use_sql THEN <<"SQL">>
                     ELSE <<>>
            ruled == (IF graph THEN <<"Knowledge Graph">> ELSE <<>>) \o store
        IN  /\ out # <<>>
            /\ Paths(out) = IF ruled = <<>> THEN <<"Default">> ELSE ruled
            /\ \A n \in DOMAIN out :
                out[n].path = "Default" =>
                    /\ out[n].text = "hybrid search with semantic similarity"
                    /\ Len(out) = 1
                    /\ ruled = <<>>

C12_Witness ==
    /\ call.op = "routing_explanation"
    /\ ~call.intent.use_kg
    /\ Paths(call.out) = <<"Knowledge Graph", "Vector">>
    /\ call.out[1].args = <<"egg", "rice">>

\* C13: search_hybrid asks for an embedding exactly when it has a semantic
\* text, semantic_query if non-empty, else cuisine; then every row carries
\* a distance and the rows come by non-decreasing distance; with no
\* semantic text it asks for no embedding, the rows come by non-increasing
\* rating and carry no distance; the rows are tagged sql+vector either way.
C13_HybridEmbedding ==
    (call.op = "search_hybrid" /\ ~call.raised) =>
        LET i == call.intent
            out == call.out
            text == IF i.semantic_query.some /\ i.semantic_query.val # ""
                    THEN i.semantic_query.val
                    ELSE IF i.cuisine.some /\ i.cuisine.val # ""
                         THEN i.cuisine.val ELSE ""
        IN  /\ text # "" =>
                /\ call.embedded = <<text>>
                /\ \A n \in DOMAIN out : out[n].distance.some
                /\ \A a, b \in DOMAIN out :
                    a < b => ~FLess(out[b].distance.val, out[a].distance.val)
            /\ text = "" =>
                /\ call.embedded = <<>>
                /\ \A n \in DOMAIN out : ~out[n].distance.some
                /\ \A a, b \in DOMAIN out :
                    a < b => ~FLess(out[a].rating, out[b].rating)
            /\ \A n \in DOMAIN out : out[n].source = "sql+vector"

\* no semantic_query, cuisine Indian: the cuisine is embedded and row 2
\* (distance 0) comes before row 1 (distance 0.2, higher rating)
C13_Witness ==
    /\ call.op = "search_hybrid"
    /\ ~call.raised
    /\ ~call.intent.semantic_query.some
    /\ call.embedded = <<"Indian">>
    /\ Len(call.out) = 2
    /\ call.out[1].id = 2
    /\ call.out[1].distance = Some(<<0, 1>>)

\* C14: search_vector called with an empty query text is turned down as a
\* caller error: it ends with InvalidInput, without asking for an
\* embedding and without a result list.
C14_EmptyTextRejected ==
    (call.op = "search_vector" /\ call.query_text = "") =>
        /\ call.raised
        /\ call.error = "InvalidInput"
        /\ call.embedded = <<>>
        /\ call.out = <<>>

\* C15: get_recipes_by_ingredient_combination called with no ingredients
\* returns the empty list and runs nothing on the graph store.
C15_NoIngredientsNoCall ==
    (call.op = "ingredient_combination" /\ call.ingredients = <<>>) =>
        /\ call.out = <<>>
        /\ call.session_runs = 0
        /\ ~call.raised

\* the graph holds recipes the bare traversal would match
C15_Witness ==
    /\ call.op = "ingredient_combination"
    /\ call.ingredients = <<>>
    /\ call.limit > 0
    /\ kg_rows # <<>>
    /\ call.out = <<>>

MapIndex(map, k) == CHOOSE n \in DOMAIN map : map[n].key = k

RowIndex(rows, id) == CHOOSE n \in DOMAIN rows : rows[n].id = id

\* C16: when the merge has ended the results come by non-increasing
\* final_score, every result scores at least as much as every merged entry
\* that was cut off, results of equal final_score stand in the order their
\* entries entered the merge map, and that order is: the entries of store
\* origin in the order of the store results, then the graph-only entries
\* in the order of the graph results.
C16_RankOrder ==
    Merged =>
        LET merged == Values(results_by_id)
        IN  /\ \A a, b \in DOMAIN fused :
                a < b => ~FLess(fused[a].final_score, fused[b].final_score)
            /\ \A n \in DOMAIN fused, m \in DOMAIN merged :
                merged[m].id \notin Ids(fused) =>
                    ~FLess(fused[n].final_score, merged[m].final_score)
            /\ \A a, b \in DOMAIN fused :
                (a < b /\ fused[a].final_score = fused[b].final_score) =>
                    MapIndex(results_by_id, fused[a].id)
                        < MapIndex(results_by_id, fused[b].id)
            /\ \A a, b \in DOMAIN merged :
                a < b =>
                    LET x == merged[a].id
                        y == merged[b].id
                    IN  IF x \in Ids(pg_results)
                        THEN y \in Ids(pg_results) =>
                                RowIndex(pg_results, x) < RowIndex(pg_results, y)
                        ELSE /\ y \notin Ids(pg_results)
                             /\ RowIndex(kg_results, x) < RowIndex(kg_results, y)

\* store row 2 (distance 0, unrated) and graph-only recipe 1 (rating 4.0)
\* both score 0.8: the store entry stands first
C16_Witness ==
    /\ pc = "done"
    /\ Len(fused) = 2
    /\ fused[1].final_score = <<4, 5>>
    /\ fused[2].final_score = <<4, 5>>
    /\ fused[1].sources = <<"sql+vector">>
    /\ fused[2].sources = <<"kg">>

\* C17: a /search request whose search failed because the graph store, the
\* recipe store or the embedding provider was unavailable is answered with
\* service-unavailable (503), not with the generic internal error.
C17_UnavailableIs503 ==
    (pc = "raised" /\ error \in {"kg", "pg", "hydrate"}) => status_code = 503

\* place of an event in the order of a streamed search
Stage(e) ==
    IF e.event = "phase"
    THEN CASE e.data = "reasoning" -> 1
           [] e.data = "parsing" -> 3
           [] e.data = "querying" -> 5
           [] e.data = "complete" -> 6
           [] OTHER -> 0
    ELSE CASE e.event = "reasoning_chunk" -> 2
           [] e.event = "intent" -> 4
           [] e.event = "results" -> 7
           [] OTHER -> 0

Stages(evs) == {Stage(evs[n]) : n \in DOMAIN evs}

C19_WellFormedQuery ==
    call.op = "kg_search" =>
        LET q == call.query
            IsCeiling(c) ==
                /\ c.kw = "WHERE"
                /\ \E k \in DOMAIN c.text :
                    c.text[k] \in {"r.prep_time_mins <= $max_prep_time",
                                   "r.cook_time_mins <= $max_cook_time"}
        IN  /\ \A n \in DOMAIN q :
                n < Len(q) => ~(q[n].kw = "WHERE" /\ q[n + 1].kw = "WHERE")
            /\ Cardinality({n \in DOMAIN q : IsCeiling(q[n])}) <= 1
            /\ \A n, m \in DOMAIN q :
                (IsCeiling(q[n]) /\ q[m].kw = "MATCH") => m < n

C21_SourcesShape ==
    Merged =>
        \A n \in DOMAIN fused :
            LET src == fused[n].sources
            IN  /\ src # <<>>
                /\ \A a, b \in DOMAIN src : a # b => src[a] # src[b]
                /\ Cardinality({a \in DOMAIN src : src[a] \in StoreTags}) <= 1
                /\ Cardinality({a \in DOMAIN src : src[a] = "kg"}) <= 1
                /\ \A a, b \in DOMAIN src :
                    (src[a] \in StoreTags /\ src[b] = "kg") => a < b
                /\ \A a \in DOMAIN src : src[a] \in SourceTags

\* an id that the graph list holds twice and the store list holds too
C21_Witness ==
    /\ Merged
    /\ \E n \in DOMAIN fused :
        /\ fused[n].sources = <<"sql+vector", "kg">>
        /\ Cardinality({k \in DOMAIN kg_results :
                            kg_results[k].id = fused[n].id}) = 2
    /\ \E n \in DOMAIN fused : fused[n].sources = <<"kg">>

\* C22: a search issues no store call once its merge has begun: when the
\* merge has ended, or has been left by an exception, _fuse_results has
\* called no backing store.
C22_NoMergeIO == merge_calls = 0

\* what search(intent, limit) returns when it runs alone
Alone(i, lim) ==
    LET kg == IF GraphRouted(i) THEN kg_search(i, lim * 2) ELSE <<>>
        pg == StoreCall(i, lim * 2)
    IN  [results |-> fuse_results(kg, pg, lim),
         source_breakdown |-> Breakdown(fuse_results(kg, pg, lim))]

\* C23: however the steps of the searches in flight on one engine are
\* interleaved, the merge map of a search holds only ids of its own two
\* result lists, and a search that has returned has the results, scores
\* and source_breakdown it returns when run alone on the same stores.
C23_IsolatedMerge ==
    \A s \in DOMAIN inflight :
        /\ \A n \in DOMAIN inflight[s].results_by_id :
            inflight[s].results_by_id[n].key
                \in Ids(inflight[s].pg_results) \cup Ids(inflight[s].kg_results)
        /\ inflight[s].pc = "done" =>
            /\ inflight[s].fused
                = Alone(inflight[s].intent, inflight[s].limit).results
            /\ inflight[s].source_breakdown
                = Alone(inflight[s].intent, inflight[s].limit).source_breakdown

\* two searches of different intents, both inside their merge loops
C23_Witness ==
    /\ inflight # <<>>
    /\ inflight[1].pc = "merge"
    /\ inflight[2].pc = "merge"
    /\ inflight[1].intent # inflight[2].intent
    /\ inflight[1].results_by_id # <<>>
    /\ inflight[2].results_by_id # <<>>
    /\ inflight[1].todo_kg # <<>>
    /\ inflight[2].todo_pg # <<>>

\* true when the intent sets no filter the store methods look at
NoStoreFilter(i) ==
    /\ ~TruthyStr(i.cuisine) /\ ~TruthyStr(i.diet) /\ ~TruthyStr(i.course)
    /\ ~TruthyInt(i.max_prep_time_mins) /\ ~TruthyInt(i.max_cook_time_mins)
    /\ ~TruthyList(i.ingredients_include)

\* C24: for one Intent, search_hybrid and search_sql build the same filter
\* conjunction: the same predicates in the same order with the same
\* parameter values, one predicate per set filter and per ingredient, and
\* both fall back to the always-true predicate when no filter is set.
C24_SameFilter ==
    call.op \in {"search_sql", "search_hybrid"} =>
        LET other == IF call.op = "search_sql"
                     THEN hybrid_query(call.intent, call.limit)
                     ELSE sql_query(call.intent, call.limit)
        IN  /\ Len(call.query.where_params) = Len(other.where_params)
            /\ call.query.where = other.where
            /\ call.query.where_params = other.where_params
            /\ NoStoreFilter(call.intent) <=> call.query.where = <<"TRUE">>
            /\ Len(call.query.where_params)
                >= IF TruthyList(call.intent.ingredients_include)
                   THEN Len(call.intent.ingredients_include.val) ELSE 0

\* a hybrid search with every kind of filter set and two ingredients
C24_Witness ==
    /\ call.op = "search_hybrid"
    /\ Len(call.query.where_params) = 7
    /\ call.query.where_params[3] = StrParam("Dinner")
    /\ call.query.where_params[7] = StrParam("%rice%")

\* the positions of the placeholders in a query text, in text order
PlaceholderAt(text, k) ==
    LET S == {p \in DOMAIN text : text[p] = Placeholder}
    IN  CHOOSE p \in S : Cardinality({q \in S : q < p}) = k - 1

PlaceholderCount(text) ==
    Cardinality({p \in DOMAIN text : text[p] = Placeholder})

\* the value the placeholder at position p of the text stands for
BoundValue(text, p, i, lim) ==
    IF text[p - 1] = ", embedding <=> " THEN EmbeddingParam(SemanticText(i))
    ELSE IF text[p - 1] = " LIMIT " THEN IntParam(lim)
    ELSE IF text[p - 2] = "cuisine" THEN StrParam(i.cuisine.val)
    ELSE IF text[p - 2] = "diet" THEN StrParam(i.diet.val)
    ELSE IF text[p - 2] = "course" THEN StrParam(i.course.val)
    ELSE IF text[p - 2] = "prep_time_mins"
        THEN IntParam(i.max_prep_time_mins.val)
    ELSE IF text[p - 2] = "cook_time_mins"
        THEN IntParam(i.max_cook_time_mins.val)
    ELSE IF text[p - 2] = "ing_0"
        THEN StrParam(LikePattern[i.ingredients_include.val[1]])
    ELSE StrParam(LikePattern[i.ingredients_include.val[2]])

\* C25: in search_sql and in both branches of search_hybrid the parameter
\* list has exactly one value per placeholder of the query text, in the
\* placeholders' order: the embedding first exactly when the distance
\* column is computed, one value per filter predicate, the limit last.
C25_ParamsMatchPlaceholders ==
    call.op \in {"search_sql", "search_hybrid"} =>
        LET text == call.query.text
            params == call.query.params
        IN  /\ Len(params) = PlaceholderCount(text)
            /\ \A k \in DOMAIN params :
                k <= PlaceholderCount(text) =>
                    params[k] = BoundValue(text, PlaceholderAt(text, k),
                                           call.intent, call.limit)
            /\ params[Len(params)] = IntParam(call.limit)
            /\ (\E p \in DOMAIN text : text[p] = ", embedding <=> ")
                <=> params[1].kind = "vector"

\* a hybrid search that embeds its text and has filters and ingredients
C25_Witness ==
    /\ call.op = "search_hybrid"
    /\ ~call.raised
    /\ Len(call.query.params) = 6
    /\ call.query.params[1] = EmbeddingParam("spicy curry")
    /\ call.query.params[2] = StrParam("Indian")
    /\ call.query.params[5] = StrParam("%rice%")
    /\ call.query.params[6] = IntParam(2)

\* the explanation line that names a store method
StorePathOf(method) ==
    IF method = "search_hybrid" THEN {"SQL+Vector", "Default"}
    ELSE IF method = "search_vector" THEN {"Vector"}
    ELSE {"SQL"}

\* C26: every retrieval path a search invokes is named by a line of its
\* routing explanation: a graph line whenever the Graph Retriever is
\* invoked, and a store line (hybrid, semantic, filter or default) that
\* matches the store method invoked.
C26_InvokedPathsExplained ==
    LET out == generate_routing_explanation(intent)
    IN  /\ kg_calls > 0 =>
            \E n \in DOMAIN out : out[n].path = "Knowledge Graph"
        /\ pg_method # "none" =>
            \E n \in DOMAIN out : out[n].path \in StorePathOf(pg_method)

\* the fused final_score of the store result of the given id
ScoreOf(out, id) ==
    LET n == CHOOSE m \in DOMAIN out : out[m].id = id IN out[n].final_score

\* C27 as stated: of two store results with the same distance (or both
\* without one), the one with the higher rating on the 0-5 scale never
\* gets a lower fused final_score than the one with the lower rating.
C27_HigherRatingNotLower ==
    call.op = "fuse_pair" =>
        \A a \in DOMAIN call.pg, b \in DOMAIN call.pg :
            FLess(call.pg[b].rating, call.pg[a].rating) =>
                ~FLess(ScoreOf(call.out, call.pg[a].id),
                       ScoreOf(call.out, call.pg[b].id))

\* C27 amended: of two store results with the same distance (or both
\* without one) and both with a non-zero rating, the higher rated one
\* never gets a lower fused final_score; a result with rating 0 is
\* scored like one rated 2.5, so it is never scored below a result
\* rated 2.5 or less and never above one rated 2.5 or more.
C27_RatedHigherNotLower ==
    call.op = "fuse_pair" =>
        \A a \in DOMAIN call.pg, b \in DOMAIN call.pg :
            LET ra == call.pg[a].rating
                rb == call.pg[b].rating
                sa == ScoreOf(call.out, call.pg[a].id)
                sb == ScoreOf(call.out, call.pg[b].id)
            IN  /\ TruthyNum(ra) /\ TruthyNum(rb) /\ FLess(rb, ra)
                    => ~FLess(sa, sb)
                /\ ~TruthyNum(ra) /\ TruthyNum(rb) /\ ~FLess(<<5, 2>>, rb)
                    => ~FLess(sa, sb)
                /\ ~TruthyNum(ra) /\ TruthyNum(rb) /\ ~FLess(rb, <<5, 2>>)
                    => ~FLess(sb, sa)

\* a result rated 4 scored above one rated 2 at the same distance
C27_Witness ==
    /\ call.op = "fuse_pair"
    /\ call.pg[1].rating = <<2, 1>>
    /\ call.pg[2].rating = <<4, 1>>
    /\ call.pg[1].distance = Some(<<1, 5>>)
    /\ Len(call.out) = 2
    /\ call.out[1].id = 2
    /\ FLess(call.out[2].final_score, call.out[1].final_score)

\* the data of the 'intent' event of the stream, if it was sent
IntentEvents == {n \in DOMAIN events : events[n].event = "intent"}

\* C28: in one streamed search the query is parsed once: the Intent of
\* the 'intent' event, and the routing explanation sent with it, are
\* those of the Intent the search that follows routes and fuses with.
C28_OneIntentPerStream ==
    spc \in {"searched", "complete", "end"} =>
        \A n \in IntentEvents :
            /\ events[n].data.parsed_intent = intent
            /\ events[n].data.routing_explanation
                = generate_routing_explanation(intent)

\* C29: once get_recipe_preview_image(url) has completed for an http or
\* https url, a later call for the url within the 6-hour TTL returns the
\* stored value without a new fetch, whether that value is an image URL
\* or no image; after the TTL the entry is dropped and the call fetches.
C29_CachedForTTL ==
    (call.op = "preview" /\ call.before.some) =>
        IF call.at <= call.before.val.expires
        THEN ~call.fetched /\ call.out = call.before.val.value
        ELSE call.fetched

\* C30: with the routes tried in their declared order, a GET on
\* /recipes/preview is handled by the preview handler, and a GET on
\* /recipes/<integer id> by the single-recipe handler, which answers
\* not-found when the store has no recipe of that id.
C30_RouteDispatch ==
    (call.op = "dispatch" /\ Len(call.path) = 2 /\ call.path[1] = "recipes") =>
        /\ call.path[2] = "preview" => call.endpoint = "recipe_preview"
        /\ call.path[2] \in DOMAIN IntSegment =>
            /\ call.endpoint = "get_recipe"
            /\ IntSegment[call.path[2]] \notin StoreIds => call.status = 404

====
